---- MODULE Spec2Model ----
(***************************************************************************)
(* State-machine model of torch_utils: the HDF5 container dataset and its  *)
(* single-group cache, the weak-shuffling sampler, the batch-loader        *)
(* factory, the online composite dataset, the abstract training harness    *)
(* (checkpoint persistence, resume, epoch loop), the causal convolution    *)
(* and lookahead modules, the signal trimming and fading utilities, the    *)
(* audio loader and the dataset-creation script.                           *)
(*                                                                         *)
(* Python values are modelled with their type where the code's behaviour   *)
(* depends on it: an index is a record [is_list, items], an optional       *)
(* integer is a record [none, val], a raised exception is the string of    *)
(* its class ("none" when nothing was raised).                             *)
(***************************************************************************)
EXTENDS Integers, Sequences, FiniteSets, TLC

VARIABLES
    \* ---- HDF5Dataset (data_loading.py 61-157)
    group_batch_len,    \* self.group_batch_len
    n_groups,           \* len(self.groups)
    cache,              \* self._cache: [st, group, data]
    cache_idx,          \* self._cache_idx: [none, val]
    req,                \* argument of the last __getitem__ call
    out,                \* its result: [exc, data]
    in_contract,        \* history: every read so far that passed the
                        \* argument checks was a contiguous ascending run
                        \* inside one group of the file
    \* ---- WeakShufflingSampler (data_loading.py 23-58)
    dataset_length,     \* self.dataset_length
    batch_size,         \* self.batch_size
    batch_ids,          \* self.batch_ids, a sequence of batch ids
    it_k,               \* __iter__: position in batch_ids (from 1)
    it_j,               \* __iter__: position in the current selection (from 1)
    yielded,            \* the indices one iteration has yielded so far
    \* ---- get_hdf5_dataloader and the loader it returns (data_loading.py 160-205)
    l_pc,               \* "idle" | "call" | "built" | "raised"
    l_arg,              \* the batch_size argument: [none, val]
    l_exc,              \* the exception that ended the call or the iteration
    pending,            \* the batch the BatchSampler is filling
    \* ---- HDF5OnlineDataset (data_loading.py 208-308)
    o_pc,               \* "idle" | "new" | "opening" | "ready" | "raised"
    o_batch_size,       \* self.batch_size
    o_total_items,      \* self.total_items
    o_n_sources,        \* number of (path, layout) pairs
    o_opened,           \* HDF5Datasets opened so far by _get_datasets
    o_exc,              \* the exception that ended __init__
    o_len,              \* result of the last len(): [none, val]
    \* ---- ModelTrainer (model_trainer.py 20-421)
    t_pc,               \* "idle" | "new" | "ready" | "ctor_raised" | "train"
                        \* | "train_raised" | "done"
    t_exc,              \* the exception that ended __init__ or start_training
    disk,               \* the files of checkpoints_dir: [epoch, ext]
    max_epochs,         \* self.max_epochs
    log_every,          \* self.log_every
    n_train,            \* number of batches of train_ds
    n_valid,            \* number of batches of valid_ds
    start_epoch,        \* self.start_epoch
    net,                \* self.net: [none, val], the epoch its state was restored from
    optimizer,          \* self.optimizer: "unset" | "fresh" | "restored"
    running_losses,     \* self.running_losses, with every step's loss taken as 1
    save_buffer,        \* self.save_buffer
    epoch,              \* start_training: epoch
    loop_i,             \* start_training: i, as the batches of the current pass consumed
    save_calls,         \* the epochs save_model was called with, in order
    events,             \* what start_training did, in order: [ev, epoch]
    logs,               \* the _log_losses calls: [is_training, steps, losses]
    \* ---- CausalConv2d (modules.py 34-100)
    cv_pc,              \* "idle" | "new" | "built" | "raised" | "ran"
    cv_kwargs,          \* the keyword arguments of the constructor call
    cv_exc,             \* the exception that ended __init__ or forward
    lookahead,          \* self.lookahead
    causal_pad_amount,  \* self.causal_pad_amount
    cv_T,               \* time length of the input of forward
    cv_y,               \* output of forward: per output time step, the input
                        \* time steps the kernel reads for it
    \* ---- Lookahead (exported by the package, used by test_modules.py 17-35)
    lk_pc,              \* "idle" | "new" | "ran"
    lk_lookahead,       \* the lookahead amount it was constructed with
    maintain_shape,     \* the flag it was constructed with
    lk_x,               \* input of forward: [batch, channel, time, feature],
                        \* time as the sequence of its steps
    lk_y,               \* output of forward, in the same form
    \* ---- random_trim, trim_silence, fade_sides (audio.py 495-636)
    a_pc,               \* "idle" | "new" | "done"
    a_fn,               \* the function that was called
    a_x,                \* the caller's signal: [tensor, ndim, ch], ch the
                        \* sequence of its channels (one for a 1-D signal)
    a_args,             \* the other arguments of the call
    a_y,                \* its result: [exc, ndim, ch]
    a_after,            \* the caller's signal after the call
    \* ---- load_audio (io.py 20-57)
    io_pc,              \* "idle" | "new" | "done"
    io_file,            \* the audio file: [channels, frames, rate]
    io_args,            \* [sample_rate, tensor], sample_rate as [none, val]
    io_ret,             \* the returned pair: [data, sample_rate]
    \* ---- create_h5.py main (15-48)
    cli_pc,             \* "idle" | "start" | "loop" | "done" | "raised"
    stdin,              \* list(sys.stdin): the input lines, each a path
    gbl,                \* args.group_batch_len
    mono,               \* args.mono: TRUE unless --multichannel is given
    cli_i,              \* the loop variable i
    loaded,             \* the positions of the lines load_audio was called for
    warned,             \* whether the remainder warning was logged
    h5                  \* the groups of the file written, in creation order

ds_vars == <<group_batch_len, n_groups, cache, cache_idx, req, out, in_contract>>
sm_vars == <<dataset_length, batch_size, batch_ids, it_k, it_j, yielded>>
ld_vars == <<l_pc, l_arg, l_exc, pending>>

on_vars == <<o_pc, o_batch_size, o_total_items, o_n_sources, o_opened, o_exc, o_len>>
tr_conf == <<max_epochs, log_every, n_train, n_valid>>
tr_vars == <<t_pc, t_exc, disk, tr_conf, start_epoch, net, optimizer, running_losses,
             save_buffer, epoch, loop_i, save_calls, events, logs>>

cv_vars == <<cv_pc, cv_kwargs, cv_exc, lookahead, causal_pad_amount, cv_T, cv_y>>

\* the modules, utilities and script that hold no dataset and no trainer
lk_vars == <<lk_pc, lk_lookahead, maintain_shape, lk_x, lk_y>>
au_vars == <<a_pc, a_fn, a_x, a_args, a_y, a_after>>
io_vars == <<io_pc, io_file, io_args, io_ret>>
cl_vars == <<cli_pc, stdin, gbl, mono, cli_i, loaded, warned, h5>>
ext_vars == <<cv_vars, lk_vars, au_vars, io_vars, cl_vars>>

vars == <<ds_vars, sm_vars, ld_vars, on_vars, tr_vars, ext_vars>>

\* what a step of the loader, of the online dataset, of the trainer leaves alone
not_loader == <<on_vars, tr_vars, ext_vars>>
not_online == <<ds_vars, sm_vars, ld_vars, tr_vars, ext_vars>>
not_trainer == <<ds_vars, sm_vars, ld_vars, on_vars, ext_vars>>
core_vars == <<ds_vars, sm_vars, ld_vars, on_vars, tr_vars>>
not_conv == <<core_vars, lk_vars, au_vars, io_vars, cl_vars>>
not_lookahead == <<core_vars, cv_vars, au_vars, io_vars, cl_vars>>
not_audio == <<core_vars, cv_vars, lk_vars, io_vars, cl_vars>>
not_io == <<core_vars, cv_vars, lk_vars, au_vars, cl_vars>>
not_cli == <<core_vars, cv_vars, lk_vars, au_vars, io_vars>>

----------------------------------------------------------------------------
(* Bounds of the model *)

MaxGroupLen == 4
MaxGroups == 2
MaxSamplerLen == 5
MaxSamplerBatch == 3
MaxLoaderBatches == 4
MaxOnlineBatch == 4
MaxOnlineItems == 8
MaxOnlineSources == 2
MaxDiskEpoch == 1
MaxEpochs == 2
MaxLogEvery == 2
MaxTrainBatches == 3
MaxValidBatches == 1
MaxSaveCalls == 2
MaxKernel == 3
MaxStride == 2
MaxPadding == 1
MaxDilation == 2
MaxLookahead == 3
MaxTime == 4
MaxBatch == 2
MaxChannels == 2
MaxFeatures == 2
MaxSignalLen == 3
MaxSampleRate == 2
MaxHalfSeconds == 4
MaxMargin == 2
MaxFadeLen == 2
MaxLines == 5
MaxGbl == 3

----------------------------------------------------------------------------
(* Python helpers *)

None == [none |-> TRUE, val |-> 0]
Some(v) == [none |-> FALSE, val |-> v]

Min(a, b) == IF a < b THEN a ELSE b
Max(a, b) == IF a > b THEN a ELSE b

\* x[a:b] of a Python sequence, for 0 <= a and 0 <= b
PySlice(x, a, b) ==
    LET stop == Min(b, Len(x))
        n == Max(stop - a, 0)
    IN [i \in 1..n |-> x[a + i]]

\* list(range(start, end))
PyRange(start, end) == [i \in 1..Max(end - start, 0) |-> start + i - 1]

ScalarIndex(i) == [is_list |-> FALSE, items |-> <<i>>]
ListIndex(s) == [is_list |-> TRUE, items |-> s]

----------------------------------------------------------------------------
(* The container file: n_groups groups, each holding one array of          *)
(* group_batch_len rows per layout key; rows are told apart by group, key  *)
(* and row number.                                                         *)

data_layout == <<"input", "label">>

FileArray(g, k) ==
    [r \in 1..group_batch_len |-> [group |-> g, key |-> data_layout[k], row |-> r - 1]]

\* [cast(g[k]) for k in self.data_layout]
FileGroup(g) == [k \in 1..Len(data_layout) |-> FileArray(g, k)]

DatasetLen == n_groups * group_batch_len

----------------------------------------------------------------------------
(* HDF5Dataset *)

NoCache == [st |-> "None", data |-> <<>>]
DeletedCache == [st |-> "deleted", data |-> <<>>]
LoadedCache(g) == [st |-> "loaded", data |-> FileGroup(g)]

\* the argument checks of __getitem__; "none" when the index passes.
\* group_batch_len % len(idx) on an empty list divides by zero.
CheckIndexDropDivides(idx) ==
    IF ~idx.is_list THEN "RuntimeError"
    ELSE IF Len(idx.items) > group_batch_len THEN "RuntimeError"
    ELSE IF Len(idx.items) = 0 THEN "ZeroDivisionError"
    ELSE "none"

CheckIndex(idx) ==
    IF ~idx.is_list THEN "RuntimeError"
    ELSE IF Len(idx.items) > group_batch_len THEN "RuntimeError"
    ELSE IF Len(idx.items) = 0 THEN "ZeroDivisionError"
    ELSE IF group_batch_len % Len(idx.items) # 0 THEN "RuntimeError"
    ELSE "none"

\* _in_cache
InCache(c_idx, idx) ==
    (~c_idx.none) /\ (idx >= c_idx.val /\ idx < c_idx.val + group_batch_len)

\* _update_cache: the key is assigned and the old cache deleted before the
\* group is looked up, so a lookup past the last group leaves both changed.
UpdateCache(idx) ==
    LET g_idx == idx \div group_batch_len
    IN IF g_idx >= n_groups
       THEN [exc |-> "IndexError", cache_idx |-> Some(idx), cache |-> DeletedCache]
       ELSE [exc |-> "none", cache_idx |-> Some(idx), cache |-> LoadedCache(g_idx)]

\* __getitem__: [exc, data, cache_idx, cache]
GetItem(idx) ==
    LET err == CheckIndex(idx)
        first == idx.items[1]
        last == idx.items[Len(idx.items)]
        upd == IF InCache(cache_idx, first)
               THEN [exc |-> "none", cache_idx |-> cache_idx, cache |-> cache]
               ELSE UpdateCache(first)
        a == first % group_batch_len
        b == (last % group_batch_len) + 1
    IN IF err # "none"
       THEN [exc |-> err, data |-> <<>>, cache_idx |-> cache_idx, cache |-> cache]
       ELSE IF upd.exc # "none"
       THEN [exc |-> upd.exc, data |-> <<>>, cache_idx |-> upd.cache_idx, cache |-> upd.cache]
       ELSE IF upd.cache.st # "loaded"
       THEN [exc |-> "AttributeError", data |-> <<>>,
             cache_idx |-> upd.cache_idx, cache |-> upd.cache]
       ELSE [exc |-> "none",
             data |-> [k \in 1..Len(upd.cache.data) |-> PySlice(upd.cache.data[k], a, b)],
             cache_idx |-> upd.cache_idx, cache |-> upd.cache]

\* a contiguous ascending run of indices that lies inside one group of the file
InOneGroup(idx) ==
    /\ idx.is_list
    /\ Len(idx.items) > 0
    /\ \A j \in 1..Len(idx.items) : idx.items[j] = idx.items[1] + j - 1
    /\ idx.items[1] >= 0
    /\ idx.items[Len(idx.items)] < DatasetLen
    /\ idx.items[1] \div group_batch_len = idx.items[Len(idx.items)] \div group_batch_len

\* the indices a caller may pass: a scalar, or a run of 0..group_batch_len+1
\* consecutive indices starting anywhere up to the first index past the file
Indices ==
    {ScalarIndex(i) : i \in 0..DatasetLen - 1}
    \cup {ListIndex(PyRange(s, s + n)) : s \in 0..DatasetLen, n \in 0..group_batch_len + 1}

\* HDF5Dataset.__init__ on a file of n_groups groups of group_batch_len rows
NewDataset ==
    /\ group_batch_len \in 1..MaxGroupLen
    /\ n_groups \in 1..MaxGroups
    /\ cache = NoCache
    /\ cache_idx = None
    /\ req = ListIndex(<<>>)
    /\ out = [exc |-> "init", data |-> <<>>]
    /\ in_contract = TRUE

\* one call dataset[idx]
ReadStep(idx) ==
    LET r == GetItem(idx)
    IN /\ req' = idx
       /\ out' = [exc |-> r.exc, data |-> r.data]
       /\ cache' = r.cache
       /\ cache_idx' = r.cache_idx
       /\ in_contract' = (in_contract /\ (CheckIndex(idx) # "none" \/ InOneGroup(idx)))
       /\ UNCHANGED <<group_batch_len, n_groups>>

----------------------------------------------------------------------------
(* WeakShufflingSampler *)

\* int(np.ceil(dataset_length / batch_size))
NBatches(n, b) == IF n % b = 0 THEN n \div b ELSE (n \div b) + 1

\* the values torch.randperm(m) can return
Perms(m) == {p \in [1..m -> 0..m - 1] : \A i, j \in 1..m : i # j => p[i] # p[j]}

\* torch.arange(start, end) of __iter__ for batch id
SelectionUntruncated(id) == PyRange(id * batch_size, (id + 1) * batch_size)

Selection(id) ==
    LET start == id * batch_size
        end == (id + 1) * batch_size
    IN PyRange(start, IF end < dataset_length THEN end ELSE dataset_length)

NoSampler ==
    /\ dataset_length = 0
    /\ batch_size = 0
    /\ batch_ids = <<>>
    /\ it_k = 1
    /\ it_j = 1
    /\ yielded = <<>>

\* WeakShufflingSampler.__init__(dataset, b) with len(dataset) = n, then iter()
NewSampler(n, b) ==
    /\ dataset_length = n
    /\ batch_size = b
    /\ batch_ids \in Perms(NBatches(n, b))
    /\ it_k = 1
    /\ it_j = 1
    /\ yielded = <<>>

SamplerExhausted == it_k > Len(batch_ids)

\* a generator that yields each selection from its end
SamplerNextIndexReversed ==
    Selection(batch_ids[it_k])[Len(Selection(batch_ids[it_k])) - it_j + 1]

\* the index the generator yields next
SamplerNextIndex == Selection(batch_ids[it_k])[it_j]

\* __iter__ runs to its next yield
SamplerStep ==
    /\ ~SamplerExhausted
    /\ yielded' = Append(yielded, SamplerNextIndex)
    /\ IF it_j < Len(Selection(batch_ids[it_k]))
       THEN it_j' = it_j + 1 /\ it_k' = it_k
       ELSE it_j' = 1 /\ it_k' = it_k + 1
    /\ UNCHANGED <<dataset_length, batch_size, batch_ids>>

----------------------------------------------------------------------------
(* get_hdf5_dataloader, and one pass over the loader it returns: the       *)
(* BatchSampler fills a list of batch_size indices from the sampler (the   *)
(* last one may be shorter, drop_last is off) and the DataLoader hands     *)
(* each list to dataset[list].                                             *)

NoLoader ==
    /\ l_pc = "idle"
    /\ l_arg = None
    /\ l_exc = "none"
    /\ pending = <<>>

\* lines 182-183: the default is read from the local `dataset`, which is
\* assigned only at line 188
ResolveBatchSize(arg) ==
    IF arg.none
    THEN [exc |-> "UnboundLocalError", val |-> 0]
    ELSE [exc |-> "none", val |-> arg.val]

GetHdf5Dataloader ==
    /\ UNCHANGED not_loader
    /\ l_pc = "call"
    /\ LET bs == ResolveBatchSize(l_arg)
       IN IF bs.exc # "none"
          THEN /\ l_pc' = "raised"
               /\ l_exc' = bs.exc
               /\ UNCHANGED <<sm_vars, pending>>
          ELSE /\ l_pc' = "built"
               /\ l_exc' = "none"
               /\ dataset_length' = DatasetLen
               /\ batch_size' = bs.val
               /\ batch_ids' \in Perms(NBatches(DatasetLen, bs.val))
               /\ UNCHANGED <<it_k, it_j, yielded, pending>>
    /\ UNCHANGED <<ds_vars, l_arg>>

\* BatchSampler.__iter__ takes the next index from the sampler
LoaderPull ==
    /\ UNCHANGED not_loader
    /\ l_pc = "built"
    /\ Len(pending) < batch_size
    /\ SamplerStep
    /\ pending' = Append(pending, SamplerNextIndex)
    /\ UNCHANGED <<ds_vars, l_pc, l_arg, l_exc>>

\* a full batch, or the last partial one, goes to dataset[batch]
LoaderFetch ==
    /\ UNCHANGED not_loader
    /\ l_pc = "built"
    /\ pending # <<>>
    /\ Len(pending) = batch_size \/ SamplerExhausted
    /\ ReadStep(ListIndex(pending))
    /\ pending' = <<>>
    /\ LET exc == GetItem(ListIndex(pending)).exc
       IN IF exc = "none"
          THEN UNCHANGED <<l_pc, l_exc>>
          ELSE l_pc' = "raised" /\ l_exc' = exc
    /\ UNCHANGED <<sm_vars, l_arg>>

----------------------------------------------------------------------------
(* HDF5OnlineDataset *)

NoOnline ==
    /\ o_pc = "idle"
    /\ o_batch_size = 1
    /\ o_total_items = 0
    /\ o_n_sources = 0
    /\ o_opened = 0
    /\ o_exc = "none"
    /\ o_len = None

\* line 241: assert (self.total_items % self.batch_size) == 0
AssertSkipped(total, b) == TRUE

AssertDivisible(total, b) == (total % b) = 0

\* __init__ up to the assertion (lines 232-241)
OnlineInit ==
    /\ UNCHANGED not_online
    /\ o_pc = "new"
    /\ IF AssertDivisible(o_total_items, o_batch_size)
       THEN /\ o_pc' = (IF o_n_sources = 0 THEN "ready" ELSE "opening")
            /\ o_exc' = "none"
       ELSE /\ o_pc' = "raised"
            /\ o_exc' = "AssertionError"
    /\ UNCHANGED <<o_batch_size, o_total_items, o_n_sources, o_opened, o_len>>

\* _get_datasets opens the next HDF5Dataset (lines 244, 298-308)
OnlineOpen ==
    /\ UNCHANGED not_online
    /\ o_pc = "opening"
    /\ o_opened < o_n_sources
    /\ o_opened' = o_opened + 1
    /\ o_pc' = (IF o_opened + 1 = o_n_sources THEN "ready" ELSE "opening")
    /\ UNCHANGED <<o_batch_size, o_total_items, o_n_sources, o_exc, o_len>>

\* __len__
OnlineLen == o_total_items \div o_batch_size

OnlineLenCall ==
    /\ UNCHANGED not_online
    /\ o_pc = "ready"
    /\ o_len' = Some(OnlineLen)
    /\ UNCHANGED <<o_pc, o_batch_size, o_total_items, o_n_sources, o_opened, o_exc>>

----------------------------------------------------------------------------
(* ModelTrainer                                                            *)
(*                                                                         *)
(* The trainer starts where __init__ has read its configuration and made   *)
(* its directories (lines 74-96, which a subclass supplies the parsing     *)
(* for); lines 98-106 are the step Construct. train_ds and valid_ds are    *)
(* finite sequences of n_train and n_valid batches, every loss is 1.       *)
(* checkpoints_dir holds any files named checkpoint_<epoch>.ckpt or        *)
(* checkpoint_<epoch>.pt when the trainer is constructed.                  *)

SaveBufferMaxLen == 5

\* a file of checkpoints_dir, checkpoint_<epoch>.<ext>
File(e, ext) == [epoch |-> e, ext |-> ext]

\* Python values that name a file: the Path, and its .name string
PathOf(f) == [kind |-> "Path", file |-> f]
StrOf(f) == [kind |-> "str", file |-> f]
\* the trainer object itself
SelfObject == [kind |-> "ModelTrainer", file |-> File(0, "")]

\* v in seq: equal values have equal types
PyIn(v, seq) == \E k \in 1..Len(seq) : seq[k] = v

\* deque(maxlen=SaveBufferMaxLen).append
DequeAppend(sb, v) ==
    IF Len(sb) < SaveBufferMaxLen THEN Append(sb, v) ELSE Append(Tail(sb), v)

\* checkpoints_dir.glob("*.<ext>")
Glob(d, ext) == {f \in d : f.ext = ext}

\* torch.save(obj, f): writes the file f names; an f that is neither a path
\* nor a file object is refused
TorchSave(f, d) ==
    IF f.kind \in {"Path", "str"}
    THEN [exc |-> "none", disk |-> d \cup {f.file}]
    ELSE [exc |-> "AttributeError", disk |-> d]

\* save_model(e): line 414 passes self as the file, not name; line 420 looks
\* the str x.name up among the Paths of the buffer
SaveModel(e, d, sb) ==
    LET name == PathOf(File(e, "ckpt"))
        saved == TorchSave(SelfObject, d)
        sb2 == DequeAppend(sb, name)
        targets == {x \in Glob(saved.disk, "ckpt") : ~PyIn(StrOf(x), sb2)}
    IN IF saved.exc # "none"
       THEN [exc |-> saved.exc, wrote |-> FALSE, disk |-> d, save_buffer |-> sb]
       ELSE [exc |-> "none", wrote |-> TRUE, disk |-> saved.disk \ targets,
             save_buffer |-> sb2]

\* _get_checkpoints
GetCheckpoints(d) == Glob(d, "pt")

\* _prev_train_exists
PrevTrainExists(d) == Cardinality(GetCheckpoints(d)) > 0

\* _load_checkpoint: the file with the highest epoch in its name; its payload
\* holds that epoch
LoadCheckpoint(d) ==
    LET chosen == CHOOSE f \in GetCheckpoints(d) :
                      \A g \in GetCheckpoints(d) : g.epoch <= f.epoch
    IN [epoch |-> chosen.epoch]

\* load_model: [exc, start_epoch, net, optimizer]; 0 is the start_epoch of
\* line 99. self.optimizer is read at line 189, and assigned first at line 101.
LoadModel(d, opt, fits) ==
    IF PrevTrainExists(d)
    THEN LET ck == LoadCheckpoint(d)
         IN IF opt = "unset"
            THEN [exc |-> "AttributeError", start_epoch |-> ck.epoch,
                  net |-> Some(ck.epoch), optimizer |-> opt]
            ELSE [exc |-> "none", start_epoch |-> ck.epoch, net |-> Some(ck.epoch),
                  optimizer |-> IF fits THEN "restored" ELSE opt]
    ELSE [exc |-> "none", start_epoch |-> 0, net |-> None, optimizer |-> opt]

NoTrainer ==
    /\ t_pc = "idle"
    /\ t_exc = "none"
    /\ disk = {}
    /\ max_epochs = 0
    /\ log_every = 1
    /\ n_train = 0
    /\ n_valid = 0
    /\ start_epoch = 0
    /\ net = None
    /\ optimizer = "unset"
    /\ running_losses = 0
    /\ save_buffer = <<>>
    /\ epoch = 0
    /\ loop_i = 0
    /\ save_calls = <<>>
    /\ events = <<>>
    /\ logs = <<>>

\* __init__, lines 98-106
Construct ==
    /\ UNCHANGED not_trainer
    /\ t_pc = "new"
    /\ \E fits \in BOOLEAN :
         LET m == LoadModel(disk, optimizer, fits)
         IN /\ start_epoch' = m.start_epoch
            /\ net' = m.net
            /\ IF m.exc # "none"
               THEN /\ t_pc' = "ctor_raised"
                    /\ t_exc' = m.exc
                    /\ optimizer' = m.optimizer
               ELSE /\ t_pc' = "ready"
                    /\ t_exc' = "none"
                    /\ optimizer' = "fresh"
    /\ running_losses' = 0
    /\ save_buffer' = <<>>
    /\ UNCHANGED <<disk, tr_conf, epoch, loop_i, save_calls, events, logs>>

\* a caller's own save_model(e), one call per epoch, epochs ascending
CallSaveModel ==
    /\ UNCHANGED not_trainer
    /\ t_pc = "ready"
    /\ Len(save_calls) < MaxSaveCalls
    /\ LET e == start_epoch + Len(save_calls)
           r == SaveModel(e, disk, save_buffer)
       IN /\ save_calls' = Append(save_calls, e)
          /\ disk' = r.disk
          /\ save_buffer' = r.save_buffer
          /\ t_exc' = r.exc
    /\ UNCHANGED <<t_pc, tr_conf, start_epoch, net, optimizer, running_losses,
                   epoch, loop_i, events, logs>>

Event(ev, e) == [ev |-> ev, epoch |-> e]

\* start_training enters range(start_epoch, max_epochs)
BeginTraining ==
    /\ UNCHANGED not_trainer
    /\ t_pc = "ready"
    /\ IF start_epoch < max_epochs
       THEN /\ t_pc' = "train"
            /\ epoch' = start_epoch
            /\ loop_i' = 0
            /\ events' = Append(events, Event("epoch", start_epoch))
       ELSE /\ t_pc' = "done"
            /\ UNCHANGED <<epoch, loop_i, events>>
    /\ t_exc' = "none"
    /\ UNCHANGED <<disk, tr_conf, start_epoch, net, optimizer, running_losses,
                   save_buffer, save_calls, logs>>

\* _log_losses(is_training, steps): the entry logged
LogEntry(is_training, steps, losses) ==
    [is_training |-> is_training, steps |-> steps, losses |-> losses]

\* lines 118-122: one batch of the training pass
TrainStep ==
    /\ UNCHANGED not_trainer
    /\ t_pc = "train"
    /\ loop_i < n_train
    /\ events' = Append(events, Event("train_step", epoch))
    /\ IF loop_i % log_every = 0 /\ loop_i # 0
       THEN /\ logs' = Append(logs, LogEntry(TRUE, log_every, running_losses + 1))
            /\ running_losses' = 0
       ELSE /\ running_losses' = running_losses + 1
            /\ UNCHANGED logs
    /\ loop_i' = loop_i + 1
    /\ UNCHANGED <<t_pc, t_exc, disk, tr_conf, start_epoch, net, optimizer,
                   save_buffer, epoch, save_calls>>

\* lines 127-136 once save_model has returned: train_ds[0] (line 129), the
\* validation pass, its flush and valid_ds[0] (line 136). steps is the last
\* value of the loop variable i: the index of the last validation batch, or
\* the one left by the training pass when valid_ds is empty.
ValidationPass(e, evs, lgs) ==
    IF n_train = 0
    THEN [exc |-> "IndexError", events |-> evs, logs |-> lgs]
    ELSE LET steps == IF n_valid > 0 THEN n_valid - 1 ELSE n_train - 1
         IN [exc |-> IF n_valid = 0 THEN "IndexError" ELSE "none",
             events |-> evs \o [k \in 1..n_valid |-> Event("valid_step", e)],
             logs |-> Append(lgs, LogEntry(FALSE, steps, n_valid))]

\* lines 124-136: the rest of the epoch after the training pass
EpochTail ==
    /\ UNCHANGED not_trainer
    /\ t_pc = "train"
    /\ loop_i = n_train
    /\ LET r == SaveModel(epoch, disk, save_buffer)
           evs == IF r.wrote THEN Append(events, Event("write", epoch)) ELSE events
           v == ValidationPass(epoch, evs, logs)
       IN /\ running_losses' = 0
          /\ save_calls' = Append(save_calls, epoch)
          /\ disk' = r.disk
          /\ save_buffer' = r.save_buffer
          /\ IF r.exc # "none"
             THEN /\ t_pc' = "train_raised"
                  /\ t_exc' = r.exc
                  /\ UNCHANGED <<epoch, loop_i, events, logs>>
             ELSE IF v.exc # "none"
             THEN /\ t_pc' = "train_raised"
                  /\ t_exc' = v.exc
                  /\ events' = v.events
                  /\ logs' = v.logs
                  /\ UNCHANGED <<epoch, loop_i>>
             ELSE /\ t_exc' = "none"
                  /\ logs' = v.logs
                  /\ loop_i' = 0
                  /\ IF epoch + 1 < max_epochs
                     THEN /\ t_pc' = "train"
                          /\ epoch' = epoch + 1
                          /\ events' = Append(v.events, Event("epoch", epoch + 1))
                     ELSE /\ t_pc' = "done"
                          /\ epoch' = epoch
                          /\ events' = v.events
    /\ UNCHANGED <<tr_conf, start_epoch, net, optimizer>>

----------------------------------------------------------------------------
(* CausalConv2d                                                            *)
(*                                                                         *)
(* A module parameter is a scalar or a (time, feature) tuple. forward is   *)
(* followed along the time axis: the input is the sequence of its time     *)
(* steps 0..T-1, a padded position holds ZeroPad, and the output holds,    *)
(* for each output time step, the input steps the kernel taps read.        *)

Scalar(v) == [is_tuple |-> FALSE, val |-> v, items |-> <<>>]
Pair(t, f) == [is_tuple |-> TRUE, val |-> 0, items |-> <<t, f>>]

ZeroPad == -1

Zeros(n) == [i \in 1..n |-> ZeroPad]

\* get_time_value
GetTimeValueFeature(param) == IF param.is_tuple THEN param.items[2] ELSE param.val

GetTimeValue(param) == IF param.is_tuple THEN param.items[1] ELSE param.val

\* _get_causal_pad_amount
GetCausalPadAmountNoDilation(kernel_size, stride, dilation) ==
    GetTimeValue(kernel_size) - 1

GetCausalPadAmount(kernel_size, stride, dilation) ==
    (GetTimeValue(kernel_size) - 1) * GetTimeValue(dilation)

\* the (top, bottom) amounts of self.causal_pad (line 71) and of
\* self.lookahead_pad (line 72)
CausalPadArgsTrailing(P, la) == [top |-> 0, bottom |-> P - la]

CausalPadArgs(P, la) == [top |-> P - la, bottom |-> 0]

LookaheadPadArgs(la) == [top |-> 0, bottom |-> la]

\* nn.ConstantPad2d((0, 0, top, bottom), 0) along the time axis: a negative
\* amount crops, and a negative resulting length is refused
ConstantPad2d(x, a) ==
    IF Len(x) + a.top + a.bottom < 0
    THEN [exc |-> "RuntimeError", x |-> <<>>]
    ELSE [exc |-> "none",
          x |-> Zeros(Max(a.top, 0))
                \o SubSeq(x, Max(-a.top, 0) + 1, Len(x) - Max(-a.bottom, 0))
                \o Zeros(Max(a.bottom, 0))]

\* the time component nn.Conv2d takes from a parameter (_pair)
ConvTimeOf(param) == IF param.is_tuple THEN param.items[1] ELSE param.val

\* nn.Conv2d along the time axis: its own zero padding on both sides, then
\* one output step per position of the dilated kernel; an input shorter than
\* the dilated kernel is refused
Conv2d(x, kw) ==
    LET k == ConvTimeOf(kw.kernel_size)
        d == ConvTimeOf(kw.dilation)
        st == ConvTimeOf(kw.stride)
        xp == Zeros(ConvTimeOf(kw.padding)) \o x \o Zeros(ConvTimeOf(kw.padding))
        span == d * (k - 1) + 1
    IN IF Len(xp) < span
       THEN [exc |-> "RuntimeError", y |-> <<>>]
       ELSE [exc |-> "none",
             y |-> [t \in 1..((Len(xp) - span) \div st) + 1 |->
                      {xp[(t - 1) * st + j * d + 1] : j \in 0..k - 1} \ {ZeroPad}]]

\* forward on an input of T time steps: [exc, y]
Forward(T, kw, P, la) ==
    LET x1 == ConstantPad2d(PyRange(0, T), CausalPadArgs(P, la))
        x2 == ConstantPad2d(x1.x, LookaheadPadArgs(la))
    IN IF x1.exc # "none" THEN [exc |-> x1.exc, y |-> <<>>]
       ELSE IF x2.exc # "none" THEN [exc |-> x2.exc, y |-> <<>>]
       ELSE Conv2d(x2.x, kw)

NoConv ==
    /\ cv_pc = "idle"
    /\ cv_kwargs = [kernel_size |-> Scalar(1), stride |-> Scalar(1), padding |-> Scalar(0),
                    dilation |-> Scalar(1), lookahead |-> 0, separable |-> FALSE]
    /\ cv_exc = "none"
    /\ lookahead = 0
    /\ causal_pad_amount = 0
    /\ cv_T = 0
    /\ cv_y = <<>>

\* CausalConv2d(**cv_kwargs): the signature has no parameter `separable`, so
\* a call that passes it is refused before the body runs; lines 61-62 assign
\* the fields before the assertions of lines 66 and 68
ConvInit ==
    /\ UNCHANGED not_conv
    /\ cv_pc = "new"
    /\ IF cv_kwargs.separable
       THEN /\ cv_pc' = "raised"
            /\ cv_exc' = "TypeError"
            /\ UNCHANGED <<lookahead, causal_pad_amount>>
       ELSE /\ lookahead' = cv_kwargs.lookahead
            /\ causal_pad_amount' = GetCausalPadAmount(cv_kwargs.kernel_size,
                                        cv_kwargs.stride, cv_kwargs.dilation)
            /\ IF GetTimeValue(cv_kwargs.stride) # 1
                  \/ GetTimeValue(cv_kwargs.padding) # 0
               THEN cv_pc' = "raised" /\ cv_exc' = "AssertionError"
               ELSE cv_pc' = "built" /\ cv_exc' = "none"
    /\ UNCHANGED <<cv_kwargs, cv_T, cv_y>>

\* one call of forward on an input of T time steps
ConvForward(T) ==
    /\ UNCHANGED not_conv
    /\ cv_pc = "built"
    /\ LET r == Forward(T, cv_kwargs, causal_pad_amount, lookahead)
       IN /\ cv_T' = T
          /\ cv_y' = r.y
          /\ cv_exc' = r.exc
          /\ cv_pc' = (IF r.exc = "none" THEN "ran" ELSE "forward_raised")
    /\ UNCHANGED <<cv_kwargs, lookahead, causal_pad_amount>>

----------------------------------------------------------------------------
(* Lookahead                                                               *)
(*                                                                         *)
(* The module shifts a (batch, channel, time, feature) input forward in    *)
(* time: it drops the first `lookahead` time steps, and when it keeps the  *)
(* shape it pads as many zero steps at the end.                            *)

Tensor4(b, c, t, f) == [batch |-> b, channel |-> c, time |-> t, feature |-> f]

\* forward
LookaheadForwardPadAlways(x, la, keep) ==
    LET shifted == SubSeq(x.time, Min(la, Len(x.time)) + 1, Len(x.time))
    IN Tensor4(x.batch, x.channel, shifted \o Zeros(la), x.feature)

LookaheadForward(x, la, keep) ==
    LET shifted == SubSeq(x.time, Min(la, Len(x.time)) + 1, Len(x.time))
    IN Tensor4(x.batch, x.channel,
               IF keep THEN shifted \o Zeros(la) ELSE shifted,
               x.feature)

NoLookahead ==
    /\ lk_pc = "idle"
    /\ lk_lookahead = 0
    /\ maintain_shape = FALSE
    /\ lk_x = Tensor4(1, 1, <<>>, 1)
    /\ lk_y = Tensor4(1, 1, <<>>, 1)

\* Lookahead(lk_lookahead, maintain_shape)(lk_x)
LookaheadCall ==
    /\ UNCHANGED not_lookahead
    /\ lk_pc = "new"
    /\ lk_pc' = "ran"
    /\ lk_y' = LookaheadForward(lk_x, lk_lookahead, maintain_shape)
    /\ UNCHANGED <<lk_lookahead, maintain_shape, lk_x>>

----------------------------------------------------------------------------
(* Signal utilities of audio.py                                            *)
(*                                                                         *)
(* A signal is an array (tensor = FALSE) or a tensor, 1-D (T,) or 2-D      *)
(* (channels, T); ch holds its channels, each the sequence of its samples. *)

Signal(tensor, ndim, ch) == [tensor |-> tensor, ndim |-> ndim, ch |-> ch]

\* x.shape[-1]
LastAxisLen(x) == Len(x.ch[1])

Abs(v) == IF v < 0 THEN -v ELSE v

\* invert_db, 10 ** (x / 20), as a ratio num / den: 10 ** -1.5 lies between
\* 0.031622 and 0.031623, and no product of it with an integer is an integer
InvertDb(db) ==
    CASE db = 0 -> [num |-> 1, den |-> 1]
      [] db = -30 -> [num |-> 31623, den |-> 1000000]

\* module.abs(x).max(); None for an array without elements, whose max raises
AbsMax(x) ==
    LET vals == {Abs(x.ch[c][t]) : c \in 1..Len(x.ch), t \in 1..LastAxisLen(x)}
    IN IF vals = {} THEN None
       ELSE Some(CHOOSE m \in vals : \A v \in vals : v <= m)

\* the elements of the list tolist() returns: an int, or a nested list
PyInt(v) == [is_list |-> FALSE, val |-> v, items |-> <<>>]
PyList(items) == [is_list |-> TRUE, val |-> 0, items |-> items]

\* thr of lines 621-624: one 0 / 1 mark per sample, a list of ints for a 1-D
\* x and a list of one list per channel for a 2-D x
Marks(x, threshold, peak) ==
    LET row(c) == [t \in 1..LastAxisLen(x) |->
                     PyInt(IF Abs(x.ch[c][t]) * threshold.den > threshold.num * peak
                           THEN 1 ELSE 0)]
    IN IF x.ndim = 1 THEN row(1) ELSE [c \in 1..Len(x.ch) |-> PyList(row(c))]

\* list.index(1): the first position (from 0) of an element equal to 1; an
\* element that is itself a list is never equal to 1
ListIndexOfOne(thr) ==
    LET hits == {k \in 1..Len(thr) : ~thr[k].is_list /\ thr[k].val = 1}
    IN IF hits = {} THEN [exc |-> "ValueError", val |-> 0]
       ELSE [exc |-> "none", val |-> (CHOOSE k \in hits : \A h \in hits : k <= h) - 1]

Reversed(seq) == [k \in 1..Len(seq) |-> seq[Len(seq) + 1 - k]]

\* x[..., a:b]
LastAxisSlice(x, a, b) == [c \in 1..Len(x.ch) |-> PySlice(x.ch[c], a, b)]

\* trim_silence: [exc, ndim, ch]
TrimSilence(x, threshold_db, margin) ==
    LET peak == AbsMax(x)
        thr == Marks(x, InvertDb(threshold_db), peak.val)
        first == ListIndexOfOne(thr)
        last == ListIndexOfOne(Reversed(thr))
        start == first.val
        end == Len(thr) - last.val
        x_start == Max(start - margin, 0)
        x_end == end + margin
    IN IF peak.none
       THEN [exc |-> IF x.tensor THEN "RuntimeError" ELSE "ValueError",
             ndim |-> x.ndim, ch |-> <<>>]
       ELSE IF first.exc # "none" \/ last.exc # "none"
       THEN [exc |-> "none", ndim |-> x.ndim, ch |-> x.ch]
       ELSE [exc |-> "none", ndim |-> x.ndim, ch |-> LastAxisSlice(x, x_start, x_end)]

\* int(duration * sample_rate), the duration given in half seconds
DurationSamples(half_seconds, sample_rate) == (half_seconds * sample_rate) \div 2

\* the values randrange(a, b) can return
Randrange(a, b) == a..b - 1

\* lines 584-585 on one channel: y = zeros(n); y[:x_len] = x
PadToInputLength(c, n) == c

PadTo(c, n) == c \o [k \in 1..n - Len(c) |-> 0]

\* random_trim with the start randrange returned: [exc, ndim, ch]
RandomTrim(x, sample_rate, half_seconds, start) ==
    LET x_len == LastAxisLen(x)
        duration_samples == DurationSamples(half_seconds, sample_rate)
        end == start + duration_samples
    IN IF x_len - duration_samples <= 0
       THEN [exc |-> "none", ndim |-> x.ndim,
             ch |-> [c \in 1..Len(x.ch) |-> PadTo(x.ch[c], duration_samples)]]
       ELSE [exc |-> "none", ndim |-> x.ndim, ch |-> LastAxisSlice(x, start, end)]

\* the starts random_trim can draw: none is drawn when the input is padded
TrimStarts(x, sample_rate, half_seconds) ==
    LET selection_start_max == LastAxisLen(x) - DurationSamples(half_seconds, sample_rate)
    IN IF selection_start_max <= 0 THEN {0} ELSE Randrange(0, selection_start_max)

\* the entries of a window: 0, 1, or a taper value strictly between
WinZero == [kind |-> "zero", n |-> 0]
WinOne == [kind |-> "one", n |-> 0]
WinTaper(n) == [kind |-> "taper", n |-> n]

\* module.hanning(M): a single 1 for M = 1, else 0.5 - 0.5 cos(2 pi n / (M - 1))
\* for n = 0..M-1, which is 0 at both ends and 1 in the middle
Hanning(M) ==
    [k \in 1..M |-> IF M = 1 THEN WinOne
                    ELSE IF k = 1 \/ k = M THEN WinZero
                    ELSE IF 2 * k = M + 1 THEN WinOne
                    ELSE WinTaper(k - 1)]

\* get_np_or_torch(x).hanning(M): the handle offers the window for an array
\* and for a tensor alike
ModuleHanning(tensor, M) == Hanning(M)

\* a sample of the copy: the value it was copied from and the window entries
\* other than 1 it has been multiplied by
Sample(v) == [v |-> v, gain |-> <<>>]

Times(smp, w) == IF w.kind = "one" THEN smp ELSE [smp EXCEPT !.gain = Append(@, w)]

\* target[lo..hi] *= w in place, with broadcasting: the operand has the length
\* of the target or length 1, anything else is refused
MulInPlace(c, lo, hi, w) ==
    LET n == Max(hi - lo + 1, 0)
    IN IF Len(w) # n /\ Len(w) # 1
       THEN [exc |-> "shape", ch |-> c]
       ELSE [exc |-> "none",
             ch |-> [k \in 1..Len(c) |->
                       IF k >= lo /\ k <= hi
                       THEN Times(c[k], IF Len(w) = n THEN w[k - lo + 1] ELSE w[1])
                       ELSE c[k]]]

\* the first position (from 1) of seq[-n:]: the whole sequence for n = 0
TailFrom(seq, n) == IF n = 0 THEN 1 ELSE Max(Len(seq) - n, 0) + 1

\* _win_to_sides on one channel
WinToSides(c, win, fade_len) ==
    LET head == MulInPlace(c, 1, Min(fade_len, Len(c)), SubSeq(win, 1, Min(fade_len, Len(win))))
        tail == MulInPlace(head.ch, TailFrom(c, fade_len), Len(c),
                           SubSeq(win, TailFrom(win, fade_len), Len(win)))
    IN IF head.exc # "none" THEN head ELSE tail

\* fade_sides: [exc, ndim, ch, x], x the caller's signal after the call. The
\* window is applied to a copy of x (lines 544, 548); for a tensor the last
\* window entry is set to 0 (line 547).
FadeSides(x, fade_len) ==
    LET han == ModuleHanning(x.tensor, 2 * fade_len + 1)
        win == IF x.tensor THEN [han EXCEPT ![Len(han)] = WinZero] ELSE han
        y == [c \in 1..Len(x.ch) |-> [t \in 1..Len(x.ch[c]) |-> Sample(x.ch[c][t])]]
        faded == [c \in 1..Len(y) |-> WinToSides(y[c], win, fade_len)]
    IN IF \E c \in 1..Len(y) : faded[c].exc # "none"
       THEN [exc |-> IF x.tensor THEN "RuntimeError" ELSE "ValueError",
             ndim |-> x.ndim, ch |-> <<>>, x |-> x]
       ELSE [exc |-> "none", ndim |-> x.ndim,
             ch |-> [c \in 1..Len(y) |-> faded[c].ch], x |-> x]

NoArgs ==
    [sample_rate |-> 0, half_seconds |-> 0, threshold_db |-> 0, margin |-> 0, fade_len |-> 0]

NoAudio ==
    /\ a_pc = "idle"
    /\ a_fn = "none"
    /\ a_x = Signal(FALSE, 1, <<<<>>>>)
    /\ a_args = NoArgs
    /\ a_y = [exc |-> "none", ndim |-> 1, ch |-> <<>>]
    /\ a_after = a_x

\* one call random_trim(a_x, sample_rate, duration)
CallRandomTrim(sample_rate, half_seconds) ==
    /\ UNCHANGED not_audio
    /\ a_pc = "new"
    /\ a_pc' = "done"
    /\ a_fn' = "random_trim"
    /\ a_args' = [NoArgs EXCEPT !.sample_rate = sample_rate, !.half_seconds = half_seconds]
    /\ \E start \in TrimStarts(a_x, sample_rate, half_seconds) :
          a_y' = RandomTrim(a_x, sample_rate, half_seconds, start)
    /\ UNCHANGED <<a_x, a_after>>

\* one call trim_silence(a_x, threshold_db, margin)
CallTrimSilence(threshold_db, margin) ==
    /\ UNCHANGED not_audio
    /\ a_pc = "new"
    /\ a_pc' = "done"
    /\ a_fn' = "trim_silence"
    /\ a_args' = [NoArgs EXCEPT !.threshold_db = threshold_db, !.margin = margin]
    /\ a_y' = TrimSilence(a_x, threshold_db, margin)
    /\ UNCHANGED <<a_x, a_after>>

\* one call fade_sides(a_x, fade_len)
CallFadeSides(fade_len) ==
    /\ UNCHANGED not_audio
    /\ a_pc = "new"
    /\ a_pc' = "done"
    /\ a_fn' = "fade_sides"
    /\ a_args' = [NoArgs EXCEPT !.fade_len = fade_len]
    /\ LET r == FadeSides(a_x, fade_len)
       IN /\ a_y' = [exc |-> r.exc, ndim |-> r.ndim, ch |-> r.ch]
          /\ a_after' = r.x
    /\ UNCHANGED a_x

----------------------------------------------------------------------------
(* load_audio                                                              *)
(*                                                                         *)
(* The returned data is described by its backend, its (channels, frames)   *)
(* shape and the sample rate its samples are at.                           *)

\* resample(data, old, new): the data at the new rate, ceil(frames * new / old)
\* frames long
Resample(data, old, new) ==
    [data EXCEPT !.rate = new, !.frames = (data.frames * new + old - 1) \div old]

\* load_audio(file_path, sample_rate, tensor): [data, sample_rate]
LoadAudio(file, sample_rate, tensor) ==
    LET data == [tensor |-> tensor, channels |-> file.channels,
                 frames |-> file.frames, rate |-> file.rate]
        old_sample_rate == file.rate
    IN IF ~tensor
       THEN [data |-> IF ~sample_rate.none /\ old_sample_rate # sample_rate.val
                      THEN Resample(data, old_sample_rate, sample_rate.val)
                      ELSE data,
             sample_rate |-> sample_rate]
       ELSE IF sample_rate.none
       THEN [data |-> data, sample_rate |-> Some(old_sample_rate)]
       ELSE [data |-> IF old_sample_rate # sample_rate.val
                      THEN Resample(data, old_sample_rate, sample_rate.val)
                      ELSE data,
             sample_rate |-> sample_rate]

NoIo ==
    /\ io_pc = "idle"
    /\ io_file = [channels |-> 1, frames |-> 0, rate |-> 1]
    /\ io_args = [sample_rate |-> None, tensor |-> FALSE]
    /\ io_ret = [data |-> [tensor |-> FALSE, channels |-> 1, frames |-> 0, rate |-> 1],
                 sample_rate |-> None]

\* one call load_audio(io_file, **io_args)
CallLoadAudio ==
    /\ UNCHANGED not_io
    /\ io_pc = "new"
    /\ io_pc' = "done"
    /\ io_ret' = LoadAudio(io_file, io_args.sample_rate, io_args.tensor)
    /\ UNCHANGED <<io_file, io_args>>

----------------------------------------------------------------------------
(* create_h5.py                                                            *)
(*                                                                         *)
(* Every line of stdin is a path; a track is told apart by the path it was *)
(* loaded from, its channel count and the stages it went through.          *)

\* line 36: groups = len(stdin) // gbl
GroupsRoundedUp(n, g) == (n + g - 1) \div g

Groups(n, g) == n \div g

\* the channel count of the audio file at a path: a.wav is mono, any other
\* file has two channels
FileChannels(path) == IF path = "a.wav" THEN 1 ELSE 2

\* lines 37, 42-43: transform(load_audio(path, sr)[0]), of shape
\* (channels, duration_samples); no stage changes the channel count
Track(path) ==
    [path |-> path, channels |-> FileChannels(path),
     stages |-> <<"load_audio", "trim_silence", "random_trim", "fade_sides">>]

\* np.stack(arrays): refused unless all arrays have the same shape
NpStack(arrays) ==
    IF \E j, k \in 1..Len(arrays) : arrays[j].channels # arrays[k].channels
    THEN [exc |-> "ValueError", x |-> <<>>]
    ELSE [exc |-> "none", x |-> arrays]

NoCli ==
    /\ cli_pc = "idle"
    /\ stdin = <<>>
    /\ gbl = 1
    /\ mono = TRUE
    /\ cli_i = 0
    /\ loaded = <<>>
    /\ warned = FALSE
    /\ h5 = <<>>

\* lines 28-38: the remainder check, the group count and the empty file
CliStart ==
    /\ UNCHANGED not_cli
    /\ cli_pc = "start"
    /\ warned' = ((Len(stdin) % gbl) # 0)
    /\ h5' = <<>>
    /\ cli_i' = 0
    /\ cli_pc' = (IF Groups(Len(stdin), gbl) > 0 THEN "loop" ELSE "done")
    /\ UNCHANGED <<stdin, gbl, mono, loaded>>

\* lines 39-48: one pass of the loop. With mono set, lines 44-45 rebind
\* `tracks` to the slices x[:0], which hold no channel, and nothing reads
\* `tracks` after that: the group is stacked from tracks_trimmed.
CliGroup ==
    /\ UNCHANGED not_cli
    /\ cli_pc = "loop"
    /\ LET lo == cli_i * gbl
           hi == (cli_i + 1) * gbl
           selection == PySlice(stdin, lo, hi)
           tracks_trimmed == [k \in 1..Len(selection) |-> Track(selection[k])]
           tracks == IF mono
                     THEN [k \in 1..Len(selection) |->
                             [Track(selection[k]) EXCEPT !.channels = 0]]
                     ELSE [k \in 1..Len(selection) |-> Track(selection[k])]
           x == NpStack(tracks_trimmed)
       IN /\ loaded' = loaded \o [k \in 1..Len(selection) |-> lo + k - 1]
          /\ IF x.exc # "none"
             THEN /\ cli_pc' = "raised"
                  /\ UNCHANGED <<h5, cli_i>>
             ELSE /\ h5' = Append(h5, [name |-> cli_i, x |-> x.x])
                  /\ cli_i' = cli_i + 1
                  /\ cli_pc' = (IF cli_i + 1 < Groups(Len(stdin), gbl)
                                THEN "loop" ELSE "done")
    /\ UNCHANGED <<stdin, gbl, mono, warned>>

NoExt == NoConv /\ NoLookahead /\ NoAudio /\ NoIo /\ NoCli

----------------------------------------------------------------------------
(* Specifications *)

\* reads of one HDF5Dataset
InitDataset == NewDataset /\ NoSampler /\ NoLoader /\ NoOnline /\ NoTrainer /\ NoExt

Read(idx) == ReadStep(idx) /\ UNCHANGED <<sm_vars, ld_vars, on_vars, tr_vars, ext_vars>>

NextDataset == \E idx \in Indices : Read(idx)

SpecDataset == InitDataset /\ [][NextDataset]_vars

\* one iteration of one WeakShufflingSampler
InitSampler ==
    /\ \E n \in 1..MaxSamplerLen, b \in 1..MaxSamplerBatch : NewSampler(n, b)
    /\ group_batch_len = 1
    /\ n_groups = 1
    /\ cache = NoCache
    /\ cache_idx = None
    /\ req = ListIndex(<<>>)
    /\ out = [exc |-> "init", data |-> <<>>]
    /\ in_contract = TRUE
    /\ NoLoader
    /\ NoOnline
    /\ NoTrainer
    /\ NoExt

SamplerYield == SamplerStep /\ UNCHANGED <<ds_vars, ld_vars, on_vars, tr_vars, ext_vars>>

NextSampler == SamplerYield

SpecSampler == InitSampler /\ [][NextSampler]_vars

\* one call of get_hdf5_dataloader and one pass over its loader
InitLoader ==
    /\ NewDataset
    /\ NoSampler
    /\ l_pc = "call"
    /\ l_arg \in {None} \cup {Some(b) : b \in 1..MaxGroupLen + 1}
    /\ IF l_arg.none THEN TRUE
       ELSE NBatches(DatasetLen, l_arg.val) <= MaxLoaderBatches
    /\ l_exc = "none"
    /\ pending = <<>>
    /\ NoOnline
    /\ NoTrainer
    /\ NoExt

NextLoader == GetHdf5Dataloader \/ LoaderPull \/ LoaderFetch

SpecLoader == InitLoader /\ [][NextLoader]_vars

\* a file that is never read, for the specifications that use no HDF5Dataset
NoDataset ==
    /\ group_batch_len = 1
    /\ n_groups = 1
    /\ cache = NoCache
    /\ cache_idx = None
    /\ req = ListIndex(<<>>)
    /\ out = [exc |-> "init", data |-> <<>>]
    /\ in_contract = TRUE

\* the construction of one HDF5OnlineDataset, and len() of it
InitOnline ==
    /\ NoDataset
    /\ NoSampler
    /\ NoLoader
    /\ NoTrainer
    /\ NoExt
    /\ o_pc = "new"
    /\ o_batch_size \in 1..MaxOnlineBatch
    /\ o_total_items \in 0..MaxOnlineItems
    /\ o_n_sources \in 0..MaxOnlineSources
    /\ o_opened = 0
    /\ o_exc = "none"
    /\ o_len = None

NextOnline == OnlineInit \/ OnlineOpen \/ OnlineLenCall

SpecOnline == InitOnline /\ [][NextOnline]_vars

\* one ModelTrainer: its construction on a model directory, save_model calls
\* and start_training
AllFiles == {File(e, ext) : e \in 0..MaxDiskEpoch, ext \in {"ckpt", "pt"}}

InitTrainer ==
    /\ NoDataset
    /\ NoSampler
    /\ NoLoader
    /\ NoOnline
    /\ NoExt
    /\ t_pc = "new"
    /\ t_exc = "none"
    /\ disk \in SUBSET AllFiles
    /\ max_epochs \in 0..MaxEpochs
    /\ log_every \in 1..MaxLogEvery
    /\ n_train \in 0..MaxTrainBatches
    /\ n_valid \in 0..MaxValidBatches
    /\ start_epoch = 0
    /\ net = None
    /\ optimizer = "unset"
    /\ running_losses = 0
    /\ save_buffer = <<>>
    /\ epoch = 0
    /\ loop_i = 0
    /\ save_calls = <<>>
    /\ events = <<>>
    /\ logs = <<>>

NextTrainer == Construct \/ CallSaveModel \/ BeginTraining \/ TrainStep \/ EpochTail

SpecTrainer == InitTrainer /\ [][NextTrainer]_vars

\* the parameter forms a caller may pass: a scalar, or a (time, feature) tuple
Params(times, features) ==
    {Scalar(v) : v \in times \cap features} \cup {Pair(t, f) : t \in times, f \in features}

NoCore == NoDataset /\ NoSampler /\ NoLoader /\ NoOnline /\ NoTrainer

\* the construction of one CausalConv2d and one call of its forward
InitConv ==
    /\ NoCore
    /\ NoLookahead
    /\ NoAudio
    /\ NoIo
    /\ NoCli
    /\ cv_pc = "new"
    /\ cv_kwargs \in [kernel_size : Params(1..MaxKernel, {1}),
                      stride : Params(1..MaxStride, 1..MaxStride),
                      padding : Params(0..MaxPadding, 0..MaxPadding),
                      dilation : Params(1..MaxDilation, {1}),
                      lookahead : 0..MaxLookahead,
                      separable : BOOLEAN]
    /\ cv_exc = "none"
    /\ lookahead = 0
    /\ causal_pad_amount = 0
    /\ cv_T = 0
    /\ cv_y = <<>>

NextConv == ConvInit \/ \E T \in 0..MaxTime : ConvForward(T)

SpecConv == InitConv /\ [][NextConv]_vars

\* one Lookahead module applied to one input
InitLookahead ==
    /\ NoCore
    /\ NoConv
    /\ NoAudio
    /\ NoIo
    /\ NoCli
    /\ lk_pc = "new"
    /\ lk_lookahead \in 0..MaxLookahead
    /\ maintain_shape \in BOOLEAN
    /\ \E b \in 1..MaxBatch, c \in 1..MaxChannels, T \in 0..MaxTime, f \in 1..MaxFeatures :
          lk_x = Tensor4(b, c, PyRange(0, T), f)
    /\ lk_y = Tensor4(1, 1, <<>>, 1)

NextLookahead == LookaheadCall

SpecLookahead == InitLookahead /\ [][NextLookahead]_vars

\* the sample values of a signal: silence, a quiet sample, a loud one
Samples == {0, 1, -40}

\* a mono or a two-channel file
SignalChannels == {1, 2}

\* the signals a caller may pass
Signals ==
    {Signal(b, 1, <<c>>) : b \in BOOLEAN,
                           c \in UNION {[1..n -> Samples] : n \in 0..MaxSignalLen}}
    \cup {Signal(b, 2, chs) : b \in BOOLEAN,
              chs \in UNION {[1..k -> [1..n -> Samples]] :
                               k \in SignalChannels, n \in 0..MaxSignalLen}}

\* the threshold_db values a caller may pass: the default, and 0 dB
Thresholds == {-30, 0}

\* one call of one of the signal utilities on one signal
InitAudio ==
    /\ NoCore
    /\ NoConv
    /\ NoLookahead
    /\ NoIo
    /\ NoCli
    /\ a_pc = "new"
    /\ a_fn = "none"
    /\ a_x \in Signals
    /\ a_args = NoArgs
    /\ a_y = [exc |-> "none", ndim |-> 1, ch |-> <<>>]
    /\ a_after = a_x

NextAudio ==
    \/ \E sr \in 1..MaxSampleRate, h \in 0..MaxHalfSeconds : CallRandomTrim(sr, h)
    \/ \E db \in Thresholds, m \in 0..MaxMargin : CallTrimSilence(db, m)
    \/ \E L \in 0..MaxFadeLen : CallFadeSides(L)

SpecAudio == InitAudio /\ [][NextAudio]_vars

\* one call of load_audio on one file
InitIo ==
    /\ NoCore
    /\ NoConv
    /\ NoLookahead
    /\ NoAudio
    /\ NoCli
    /\ io_pc = "new"
    /\ io_file \in [channels : SignalChannels, frames : 0..MaxSignalLen,
                    rate : 1..MaxSampleRate]
    /\ io_args \in [sample_rate : {None} \cup {Some(r) : r \in 1..MaxSampleRate},
                    tensor : BOOLEAN]
    /\ io_ret = [data |-> [tensor |-> FALSE, channels |-> 1, frames |-> 0, rate |-> 1],
                 sample_rate |-> None]

NextIo == CallLoadAudio

SpecIo == InitIo /\ [][NextIo]_vars

\* one run of create_h5.py on up to MaxLines input lines
InitCli ==
    /\ NoCore
    /\ NoConv
    /\ NoLookahead
    /\ NoAudio
    /\ NoIo
    /\ cli_pc = "start"
    /\ stdin \in UNION {[1..n -> {"a.wav", "b.wav"}] : n \in 0..MaxLines}
    /\ gbl \in 1..MaxGbl
    /\ mono \in BOOLEAN
    /\ cli_i = 0
    /\ loaded = <<>>
    /\ warned = FALSE
    /\ h5 = <<>>

NextCli == CliStart \/ CliGroup

SpecCli == InitCli /\ [][NextCli]_vars

----------------------------------------------------------------------------
(* Properties of HDF5Dataset, stated for SpecDataset *)

\* n divides g evenly (no positive multiple of 0 is g)
Divides(n, g) == \E q \in 1..g : q * n = g

\* rows lo..hi (inclusive) of array k of group g, as the file holds them
FileRows(g, k, lo, hi) ==
    [j \in 1..Max(hi - lo + 1, 0) |-> [group |-> g, key |-> data_layout[k], row |-> lo + j - 1]]

\* C2: after any sequence of accepted in-contract reads, a read of idx returns,
\* for each layout entry, rows idx[0] % group_batch_len .. idx[-1] % group_batch_len
\* of group idx[0] // group_batch_len, whatever was read before.
C2_ReadReturnsRequestedRows ==
    (out.exc # "init" /\ in_contract /\ InOneGroup(req)
        /\ Len(req.items) <= group_batch_len /\ Divides(Len(req.items), group_batch_len))
    => /\ out.exc = "none"
       /\ out.data = [k \in 1..Len(data_layout) |->
                        FileRows(req.items[1] \div group_batch_len, k,
                                 req.items[1] % group_batch_len,
                                 req.items[Len(req.items)] % group_batch_len)]

\* C3: whenever the cache is non-empty after in-contract reads, _cache_idx is
\* the starting sample index of the cached group (a multiple of
\* group_batch_len), the group whose arrays the cache holds.
C3_CacheKeyIsGroupStart ==
    (in_contract /\ cache.st = "loaded")
    => /\ ~cache_idx.none
       /\ cache_idx.val % group_batch_len = 0
       /\ cache.data = FileGroup(cache_idx.val \div group_batch_len)

\* C4: __getitem__ is rejected by its argument checks exactly when the index
\* is not a list, is a list longer than group_batch_len, or is a list whose
\* length does not evenly divide group_batch_len; every other index list
\* passes the checks and goes on to the cache lookup.
C4_IndexChecks ==
    (out.exc # "init")
    => ((out.exc \in {"RuntimeError", "ZeroDivisionError"})
        <=> (\/ ~req.is_list
             \/ Len(req.items) > group_batch_len
             \/ ~Divides(Len(req.items), group_batch_len)))

\* a list shorter than the group whose length does not divide it was refused,
\* and a list of dividing length was served from a group other than the first
C4_Witness ==
    /\ out.exc = "RuntimeError"
    /\ req.is_list
    /\ Len(req.items) > 1
    /\ Len(req.items) < group_batch_len
    /\ cache.st = "loaded"
    /\ cache_idx.val >= group_batch_len

----------------------------------------------------------------------------
(* Properties of WeakShufflingSampler, stated for SpecSampler *)

\* the indices of batch k in ascending order: those v < n with k*b <= v < (k+1)*b
BatchOf(k, n, b) ==
    LET members == {v \in 0..n - 1 : k * b <= v /\ v < (k + 1) * b}
    IN [i \in 1..Cardinality(members) |-> k * b + i - 1]

RECURSIVE ConcatBatches(_, _, _)
ConcatBatches(ids, n, b) ==
    IF ids = <<>> THEN <<>>
    ELSE BatchOf(ids[1], n, b) \o ConcatBatches(Tail(ids), n, b)

\* the least m with m * b >= n
CeilDiv(n, b) == CHOOSE m \in 0..n : m * b >= n /\ \A m2 \in 0..n : m2 * b >= n => m <= m2

\* C5: one iteration yields each index 0..n-1 exactly once, as the
\* concatenation of the batches [k*b, min((k+1)*b, n)) in the order of one
\* permutation of the batch ids 0..ceil(n/b)-1, each batch ascending.
C5_WeakShuffleOrder ==
    /\ Len(batch_ids) = CeilDiv(dataset_length, batch_size)
    /\ {batch_ids[i] : i \in 1..Len(batch_ids)} = 0..CeilDiv(dataset_length, batch_size) - 1
    /\ Len(yielded) <= Len(ConcatBatches(batch_ids, dataset_length, batch_size))
    /\ yielded = SubSeq(ConcatBatches(batch_ids, dataset_length, batch_size), 1, Len(yielded))
    /\ SamplerExhausted =>
        /\ Len(yielded) = dataset_length
        /\ \A v \in 0..dataset_length - 1 :
             Cardinality({i \in 1..Len(yielded) : yielded[i] = v}) = 1
        /\ yielded = ConcatBatches(batch_ids, dataset_length, batch_size)

\* a finished iteration that started with the truncated last batch
C5_Witness ==
    /\ SamplerExhausted
    /\ dataset_length % batch_size # 0
    /\ Len(batch_ids) >= 3
    /\ batch_ids[1] = Len(batch_ids) - 1
    /\ batch_ids[2] > batch_ids[3]

----------------------------------------------------------------------------
(* Properties of get_hdf5_dataloader, stated for SpecLoader *)

\* C10: called without a batch size, get_hdf5_dataloader returns a loader
\* whose batch size is the container's group_batch_len.
C10_DefaultBatchSize ==
    (l_arg.none /\ l_pc # "call")
    => (l_pc = "built" /\ l_exc = "none" /\ batch_size = group_batch_len)

----------------------------------------------------------------------------
(* Properties of HDF5OnlineDataset, stated for SpecOnline *)

\* total is a whole multiple of b
WholeMultiple(total, b) == \E q \in 0..total : q * b = total

\* C9: with total_items not evenly divisible by batch_size the construction
\* fails before any underlying container dataset is opened; for every valid
\* pair the declared length is exactly total_items / batch_size.
C9_OnlineConstruction ==
    /\ (o_pc # "new" /\ ~WholeMultiple(o_total_items, o_batch_size))
       => (o_pc = "raised" /\ o_opened = 0 /\ o_len.none)
    /\ (o_pc # "new" /\ WholeMultiple(o_total_items, o_batch_size))
       => (o_pc # "raised" /\ (~o_len.none => o_len.val * o_batch_size = o_total_items))

\* a construction refused with sources to open and more items than one batch
C9_Witness ==
    /\ o_pc = "raised"
    /\ o_exc = "AssertionError"
    /\ o_n_sources > 0
    /\ o_total_items > o_batch_size

----------------------------------------------------------------------------
(* Properties of ModelTrainer, stated for SpecTrainer *)

\* the last n entries of a sequence, as a set
LastOf(seq, n) == {seq[k] : k \in (Max(Len(seq) - n, 0) + 1)..Len(seq)}

Ascending(seq) == \A k \in 1..Len(seq) - 1 : seq[k] < seq[k + 1]

\* C1: after any sequence of save_model calls (one per epoch, epochs
\* ascending) the checkpoints directory holds exactly the checkpoint files of
\* the last 5 calls: all n of them after n <= 5 calls, none of the older ones
\* after more.
C1_RollingRetention ==
    (save_calls # <<>> /\ Ascending(save_calls))
    => Glob(disk, "ckpt") = {File(e, "ckpt") : e \in LastOf(save_calls, 5)}

\* the positions of an event in what start_training did
Positions(ev, e) == {k \in 1..Len(events) : events[k] = Event(ev, e)}

\* start_training has left epoch e, normally or not
EpochOver(e) ==
    /\ Positions("epoch", e) # {}
    /\ t_pc \in {"done", "train_raised"} \/ (t_pc = "train" /\ epoch > e)

\* C6: for every epoch e that is run, the checkpoint write of e happens
\* strictly after the last training step of e and strictly before the first
\* validation step of e.
C6_WriteBetweenTrainAndValid ==
    \A e \in 0..MaxEpochs :
        (EpochOver(e) /\ Positions("train_step", e) # {}) =>
            \E w \in Positions("write", e) :
                /\ \A t \in Positions("train_step", e) : t < w
                /\ \A v \in Positions("valid_step", e) : w < v

\* the highest epoch among the checkpoint files save_model names
TopCheckpoint(d) ==
    CHOOSE e \in {f.epoch : f \in Glob(d, "ckpt")} :
        \A f \in Glob(d, "ckpt") : f.epoch <= e

\* C7: a ModelTrainer constructed on a directory holding checkpoint files of
\* an earlier run finds them, restores model and optimizer state from the one
\* with the highest epoch and sets start_epoch to its epoch; construction
\* completes and the optimizer is set up.
C7_ResumeFromCheckpoint ==
    (t_pc \in {"ready", "ctor_raised"} /\ save_calls = <<>> /\ Glob(disk, "ckpt") # {})
    => /\ t_pc = "ready"
       /\ optimizer # "unset"
       /\ net = Some(TopCheckpoint(disk))
       /\ start_epoch = TopCheckpoint(disk)

\* the epochs of the events of one kind, in order
RECURSIVE EpochsOf(_, _)
EpochsOf(ev, evs) ==
    IF evs = <<>> THEN <<>>
    ELSE (IF evs[1].ev = ev THEN <<evs[1].epoch>> ELSE <<>>) \o EpochsOf(ev, Tail(evs))

\* C8: start_training terminates having run exactly the epochs start_epoch ..
\* max_epochs-1 in ascending order with exactly one checkpoint write per
\* epoch; with start_epoch >= max_epochs it runs no epoch and writes nothing.
C8_RunsEveryEpochOnce ==
    (t_pc \in {"done", "train_raised"} /\ n_train > 0 /\ n_valid > 0)
    => /\ t_pc = "done"
       /\ EpochsOf("epoch", events) = PyRange(start_epoch, max_epochs)
       /\ EpochsOf("write", events) = PyRange(start_epoch, max_epochs)

----------------------------------------------------------------------------
(* Properties of CausalConv2d, stated for SpecConv *)

\* the constructor call is in the contract of forward: the lookahead is at
\* most the causal padding (kernel_time - 1) * dilation_time
LookaheadFits ==
    cv_kwargs.lookahead
        <= (ConvTimeOf(cv_kwargs.kernel_size) - 1) * ConvTimeOf(cv_kwargs.dilation)

\* C11: with time stride 1, lookahead la within 0..(k-1)*d and an input of
\* T >= 1 time steps, forward returns and its output has T time steps.
C11_OutputTimeLength ==
    (cv_pc \in {"ran", "forward_raised"} /\ cv_T >= 1 /\ LookaheadFits)
    => (cv_pc = "ran" /\ Len(cv_y) = cv_T)

\* a dilated kernel of three taps with one step of lookahead kept the length
C11_Witness ==
    /\ cv_pc = "ran"
    /\ ConvTimeOf(cv_kwargs.kernel_size) = 3
    /\ ConvTimeOf(cv_kwargs.dilation) = 2
    /\ lookahead = 1
    /\ cv_T >= 2
    /\ Len(cv_y) = cv_T

\* C12: with lookahead la within 0..(k-1)*d, the output at time t reads only
\* input steps s <= t + la, and it does read step t + la whenever the input
\* has one; with la = 0 no later step is read.
C12_Causality ==
    (cv_pc = "ran" /\ LookaheadFits)
    => \A t \in 1..Len(cv_y) :
          /\ \A s \in cv_y[t] : s <= (t - 1) + lookahead
          /\ ((t - 1) + lookahead < cv_T) => (((t - 1) + lookahead) \in cv_y[t])

\* an output step that reads the input step ahead of it and the one behind it
C12_Witness ==
    /\ cv_pc = "ran"
    /\ LookaheadFits
    /\ lookahead = 1
    /\ \E t \in 1..Len(cv_y) : {(t - 1) + 1, (t - 1) - 1} \subseteq cv_y[t]

\* C13: the construction fails whenever the time component of stride is not
\* 1 or the time component of padding is not 0 (scalar or tuple), and
\* succeeds otherwise, whatever the feature components are.
C13_TimeStrideAndPadding ==
    (cv_pc # "new" /\ ~cv_kwargs.separable)
    => ((cv_pc = "raised")
        <=> (ConvTimeOf(cv_kwargs.stride) # 1 \/ ConvTimeOf(cv_kwargs.padding) # 0))

\* a construction that succeeded with feature stride 2 and feature padding 1
C13_Witness ==
    /\ cv_pc = "built"
    /\ cv_kwargs.stride = Pair(1, 2)
    /\ cv_kwargs.padding = Pair(0, 1)

\* C14: constructed with separable=True (time stride 1, time padding 0), the
\* module is built and forward returns an output as long as its input.
C14_SeparableShape ==
    (cv_kwargs.separable /\ cv_pc # "new"
        /\ ConvTimeOf(cv_kwargs.stride) = 1 /\ ConvTimeOf(cv_kwargs.padding) = 0)
    => /\ cv_pc \in {"built", "ran", "forward_raised"}
       /\ (cv_pc \in {"ran", "forward_raised"} /\ cv_T >= 1 /\ LookaheadFits)
          => (cv_pc = "ran" /\ Len(cv_y) = cv_T)

----------------------------------------------------------------------------
(* Properties of Lookahead, stated for SpecLookahead *)

\* C15: applied to an input of T time steps with lookahead L <= T, the module
\* returns T - L time steps without shape preservation and T time steps with
\* it; the batch, channel and feature sizes are those of the input.
C15_LookaheadShape ==
    (lk_pc = "ran" /\ lk_lookahead <= Len(lk_x.time))
    => /\ Len(lk_y.time) = (IF maintain_shape THEN Len(lk_x.time)
                            ELSE Len(lk_x.time) - lk_lookahead)
       /\ lk_y.batch = lk_x.batch
       /\ lk_y.channel = lk_x.channel
       /\ lk_y.feature = lk_x.feature

\* an input of two channels shortened by a lookahead of three steps
C15_Witness ==
    /\ lk_pc = "ran"
    /\ ~maintain_shape
    /\ lk_lookahead = 3
    /\ lk_x.channel = 2
    /\ Len(lk_x.time) = 4
    /\ Len(lk_y.time) = 1

----------------------------------------------------------------------------
(* Properties of the signal utilities, stated for SpecAudio *)

Loud(x, db) ==
    LET all == {Abs(x.ch[c][t]) : c \in 1..Len(x.ch), t \in 1..LastAxisLen(x)}
        peak == IF all = {} THEN 0 ELSE CHOOSE m \in all : \A v \in all : v <= m
        thr == InvertDb(db)
    IN {t \in 1..LastAxisLen(x) :
          \E c \in 1..Len(x.ch) : Abs(x.ch[c][t]) * thr.den > thr.num * peak}

Least(S) == CHOOSE m \in S : \A v \in S : m <= v
Greatest(S) == CHOOSE m \in S : \A v \in S : v <= m

\* C17: trim_silence returns the slice of the last axis from
\* max(first - margin, 0) through last + margin, first and last being the
\* first and last time positions that hold a sample above the threshold;
\* when no sample is above it, it returns the input unchanged. Stated for
\* signals of at least one sample, for which max|x| exists.
C17_TrimSilenceSlice ==
    (a_pc = "done" /\ a_fn = "trim_silence" /\ LastAxisLen(a_x) > 0)
    => LET loud == Loud(a_x, a_args.threshold_db)
           lo == Max(Least(loud) - a_args.margin, 1)
           hi == Min(Greatest(loud) + a_args.margin, LastAxisLen(a_x))
       IN /\ a_y.exc = "none"
          /\ a_y.ndim = a_x.ndim
          /\ IF loud = {} THEN a_y.ch = a_x.ch
             ELSE a_y.ch = [c \in 1..Len(a_x.ch) |-> SubSeq(a_x.ch[c], lo, hi)]

\* a sample of the returned copy has the value v of the input
SameValue(smp, v) == smp.v = v /\ (v = 0 \/ smp.gain = <<>>)

\* C18: fade_sides leaves its input as it was, and the copy it returns equals
\* the input at every offset in [fade_len, length - fade_len).
C18_FadeLeavesMiddle ==
    (a_pc = "done" /\ a_fn = "fade_sides" /\ a_y.exc = "none")
    => /\ a_after = a_x
       /\ \A c \in 1..Len(a_x.ch) :
             \A t \in a_args.fade_len + 1..LastAxisLen(a_x) - a_args.fade_len :
                 SameValue(a_y.ch[c][t], a_x.ch[c][t])

----------------------------------------------------------------------------
(* Properties of load_audio, stated for SpecIo *)

\* C19: load_audio returns (data, sample_rate_used), for arrays and for
\* tensors: the second element is the sample rate of the returned data, which
\* is the requested rate when one is given and the file's rate when none is.
C19_ReturnsRateUsed ==
    (io_pc = "done")
    => /\ ~io_ret.sample_rate.none
       /\ io_ret.sample_rate.val = io_ret.data.rate
       /\ io_ret.data.rate = (IF io_args.sample_rate.none THEN io_file.rate
                              ELSE io_args.sample_rate.val)

----------------------------------------------------------------------------
(* Properties of create_h5.py, stated for SpecCli *)

\* floor(n / g): the q with q * g <= n < (q + 1) * g
FloorDiv(n, g) == CHOOSE q \in 0..n : q * g <= n /\ n < (q + 1) * g

\* C20: the script writes exactly floor(n / g) groups, named group_0 ..
\* group_{floor(n/g)-1} in that order, group_i holding the g tracks of input
\* lines i*g .. (i+1)*g - 1 in input order; no line past the last whole group
\* is ever loaded.
C20_WholeGroupsInOrder ==
    LET q == FloorDiv(Len(stdin), gbl)
    IN /\ \A k \in 1..Len(loaded) : loaded[k] = k - 1 /\ loaded[k] < q * gbl
       /\ (cli_pc = "done") =>
            /\ Len(h5) = q
            /\ Len(loaded) = q * gbl
            /\ \A j \in 1..Len(h5) :
                 /\ h5[j].name = j - 1
                 /\ h5[j].x = [k \in 1..gbl |-> Track(stdin[(j - 1) * gbl + k])]

\* a finished run over two whole groups of different files that dropped a
\* trailing line
C20_Witness ==
    /\ cli_pc = "done"
    /\ gbl = 2
    /\ Len(stdin) = 5
    /\ Len(h5) = 2
    /\ warned
    /\ stdin[1] # stdin[3]

\* C21: in mono mode (the default) every track written to the container has
\* one channel, the first of its source file; with --multichannel every
\* written track has the channel count of its source file.
C21_MonoCollapsesChannels ==
    \A j \in 1..Len(h5) :
        \A k \in 1..Len(h5[j].x) :
            h5[j].x[k].channels = (IF mono THEN 1 ELSE FileChannels(h5[j].x[k].path))

\* the positions in `logs` of the validation flushes (line 134)
ValidationFlushes == {k \in 1..Len(logs) : ~logs[k].is_training}

\* C22: every epoch that is run ends with one validation flush, and the
\* running losses handed to it are those of the epoch's validation steps
\* only (one unit of loss per step); the running losses are zero whenever
\* the first training step of an epoch is about to start.
C22_ValidationFlushIsolated ==
    /\ (t_pc = "train" /\ loop_i = 0) => running_losses = 0
    /\ (n_train > 0 /\ n_valid > 0) =>
          /\ Cardinality(ValidationFlushes)
                = Cardinality({e \in 0..MaxEpochs : EpochOver(e)})
          /\ \A k \in ValidationFlushes : logs[k].losses = n_valid

\* C23: at every call of _log_losses made by start_training, the steps
\* argument is the number of steps accumulated in the running losses since
\* the last reset (each step adds one unit of loss).
C23_StepsMatchAccumulated ==
    \A k \in 1..Len(logs) : logs[k].steps = logs[k].losses

----------------------------------------------------------------------------
(* Further properties of HDF5Dataset and of the loader                     *)

\* C24: every read of an accepted list of indices of the dataset that
\* returns, returns in each of its arrays exactly as many rows as the list
\* has indices
C24_RowsMatchIndexCount ==
    (/\ req.is_list
     /\ CheckIndex(req) = "none"
     /\ \A j \in 1..Len(req.items) : req.items[j] < DatasetLen
     /\ out.exc = "none")
    => \A k \in 1..Len(out.data) : Len(out.data[k]) = Len(req.items)

\* the c-th list of b indices the BatchSampler has cut from the sampler's
\* stream
Chunk(c, b) == SubSeq(yielded, (c - 1) * b + 1, c * b)

\* a contiguous ascending run of exactly b indices of the dataset that
\* starts at a multiple of b and lies inside one group
AlignedRun(run, b) ==
    /\ Len(run) = b
    /\ run[1] % b = 0
    /\ \A j \in 1..b : run[j] = run[1] + j - 1
    /\ run[1] \div group_batch_len = run[b] \div group_batch_len
    /\ run[b] < DatasetLen

\* C25: with a batch size b that divides group_batch_len, the lists the
\* loader has passed to __getitem__ are the whole chunks of b indices of the
\* sampler's stream, the last list passed being the last whole chunk; every
\* one is a contiguous ascending run of b indices that starts at a multiple
\* of b inside one group, no two of them start at the same index, and at the
\* end of the pass they cover 0..len(dataset)-1.
C25_LoaderPassesAlignedRuns ==
    (l_pc \in {"built", "raised"} /\ ~l_arg.none /\ Divides(l_arg.val, group_batch_len))
    => LET b == l_arg.val
           passed == Len(yielded) - Len(pending)
           n == passed \div b
       IN /\ passed % b = 0
          /\ \A c \in 1..n : AlignedRun(Chunk(c, b), b)
          /\ \A c, d \in 1..n : c # d => Chunk(c, b)[1] # Chunk(d, b)[1]
          /\ IF n > 0 THEN req = ListIndex(Chunk(n, b)) ELSE out.exc = "init"
          /\ (SamplerExhausted /\ pending = <<>>) => passed = DatasetLen

\* a whole pass over two groups of four rows in batches of two, the batches
\* not in ascending order
C25_Witness ==
    /\ l_pc = "built"
    /\ l_arg = Some(2)
    /\ group_batch_len = 4
    /\ n_groups = 2
    /\ SamplerExhausted
    /\ pending = <<>>
    /\ Len(yielded) = 8
    /\ req = ListIndex(<<2, 3>>)
    /\ yielded[1] = 6

====
